---- MODULE Spec2Model ----
(***************************************************************************)
(* Food label -> calories-per-100g resolution of src/apps.py:              *)
(* the normalisation chain (lower / "_" -> " " / strip punctuation /       *)
(* strip), the reference table built from food_db.csv, fallback_lookup     *)
(* with its exact, partial and fuzzy (difflib) tiers, and the runs of the  *)
(* Streamlit script that load the table and store the looked-up calories   *)
(* in st.session_state.                                                    *)
(*                                                                         *)
(* A string is a sequence of code points (Python str, ASCII range).        *)
(* A float result is the record Float(v), Python's None is the record      *)
(* None, an uncaught exception is the record Raised(type, line).           *)
(***************************************************************************)
EXTENDS Integers, Sequences, FiniteSets

\* ---------------------------------------------------------------- bounds
MaxRows == 2
MaxNormLen == 4
NumThreads == 2

\* ------------------------------------------------------------ characters
UNDERSCORE == 95  \* "_"
SPACE == 32       \* " "

\* string.punctuation: !"#$%&'()*+,-./:;<=>?@[\]^_`{|}~
punctuation == (33..47) \cup (58..64) \cup (91..96) \cup (123..126)

\* characters str.strip() removes (str.isspace() in the ASCII range)
whitespace == (9..13) \cup (28..32)

\* ------------------------------------------------------- string helpers
Min(S) == CHOOSE m \in S : \A o \in S : m <= o
Max(S) == CHOOSE m \in S : \A o \in S : o <= m

Strings(A, lengths) == UNION {[1..k -> A] : k \in lengths}

\* Python's  x in s  for strings: x occurs in s as a contiguous run
IsSubstring(x, s) ==
    \E off \in 0..(Len(s) - Len(x)) : \A k \in 1..Len(x) : s[off + k] = x[k]

\* Python's  s < t  for strings: lexicographic on code points
StrLess(s, t) ==
    \E k \in 1..Len(t) :
        /\ k - 1 <= Len(s)
        /\ \A m \in 1..(k - 1) : s[m] = t[m]
        /\ (k > Len(s) \/ s[k] < t[k])

\* ----------------------------------------------------------- normalizer
\* str.lower()
lower(s) == [k \in 1..Len(s) |-> IF s[k] \in 65..90 THEN s[k] + 32 ELSE s[k]]

\* str.replace("_", " ")
replace(s) == [k \in 1..Len(s) |-> IF s[k] = UNDERSCORE THEN SPACE ELSE s[k]]

\* str.translate(str.maketrans("", "", string.punctuation))
IsKept(c) == c \notin punctuation
translate(s) == SelectSeq(s, IsKept)

\* str.strip()
strip(s) ==
    LET solid == {k \in 1..Len(s) : s[k] \notin whitespace}
    IN IF solid = {} THEN <<>>
       ELSE SubSeq(s, Min(solid), Max(solid))

\* variant: punctuation is stripped before the underscores are replaced
normalize_translate_first(s) == strip(replace(translate(lower(s))))

\* variant: the string is stripped before the punctuation is removed
normalize_strip_first(s) == translate(replace(strip(lower(s))))

\* the chain of apps.py lines 24-30 (table) and 37-42 (label)
normalize(s) == strip(translate(replace(lower(s))))

\* ------------------------------------------------ difflib.SequenceMatcher
\* get_close_matches builds SequenceMatcher() with the defaults isjunk=None
\* and autojunk=True; seq1 (a) is a possibility, seq2 (b) is the word.
\* Strings are indexed from 0 as in Python: element i of a is a[i + 1].
Count(s, c) == Cardinality({k \in 1..Len(s) : s[k] = c})

\* __chain_b: when b has 200 elements or more, the elements that occur more
\* than len(b) // 100 + 1 times are "popular" and leave b2j
bpopular(b) ==
    IF Len(b) >= 200
      THEN {b[k] : k \in {m \in 1..Len(b) : Count(b, b[m]) > (Len(b) \div 100) + 1}}
      ELSE {}

\* Length of the common run of a and b that ends at a[i], b[j], stays inside
\* a[alo:], b[blo:] and goes over elements of b2j only  (j2len of
\* find_longest_match).
RECURSIVE j2len(_, _, _, _, _, _, _)
j2len(a, b, i, j, alo, blo, popular) ==
    IF a[i + 1] # b[j + 1] \/ b[j + 1] \in popular THEN 0
    ELSE IF i = alo \/ j = blo THEN 1
    ELSE 1 + j2len(a, b, i - 1, j - 1, alo, blo, popular)

\* SequenceMatcher.find_longest_match(alo, ahi, blo, bhi):
\* <<besti, bestj, bestsize>>, the longest block, earliest in a, then in b.
\* The ends <<i, j>> of the common runs inside the window:
block_ends(a, b, alo, ahi, blo, bhi, popular) ==
    {p \in (alo..(ahi - 1)) \X (blo..(bhi - 1)) :
        j2len(a, b, p[1], p[2], alo, blo, popular) > 0}

\* the ends of the longest runs (k > bestsize keeps the first one met)
longest_ends(a, b, alo, blo, popular, ends) ==
    LET bestsize == Max({j2len(a, b, p[1], p[2], alo, blo, popular) : p \in ends})
    IN {p \in ends : j2len(a, b, p[1], p[2], alo, blo, popular) = bestsize}

\* the loop meets the ends by rising i, then by rising j
first_met(ends) ==
    LET i == Min({p[1] : p \in ends})
    IN <<i, Min({p[2] : p \in {q \in ends : q[1] = i}})>>

\* besti, bestj, bestsize = i-k+1, j-k+1, k
block_ending_at(a, b, alo, blo, popular, end) ==
    LET k == j2len(a, b, end[1], end[2], alo, blo, popular)
    IN <<end[1] - k + 1, end[2] - k + 1, k>>

\* besti, bestj, bestsize after the loop over a: alo, blo, 0 when b2j gave
\* no run
best_in_b2j(a, b, alo, ahi, blo, bhi, popular) ==
    IF block_ends(a, b, alo, ahi, blo, bhi, popular) = {} THEN <<alo, blo, 0>>
    ELSE block_ending_at(a, b, alo, blo, popular,
             first_met(longest_ends(a, b, alo, blo, popular,
                                    block_ends(a, b, alo, ahi, blo, bhi, popular))))

\* the two while loops that follow: the block grows over equal elements on
\* its left, then on its right (isbjunk is false of every element, the
\* popular ones included; the loops over junk never run)
RECURSIVE extend_left(_, _, _, _, _)
extend_left(a, b, alo, blo, x) ==
    IF x[1] > alo /\ x[2] > blo /\ a[x[1]] = b[x[2]]
      THEN extend_left(a, b, alo, blo, <<x[1] - 1, x[2] - 1, x[3] + 1>>)
      ELSE x

RECURSIVE extend_right(_, _, _, _, _)
extend_right(a, b, ahi, bhi, x) ==
    IF /\ x[1] + x[3] < ahi
       /\ x[2] + x[3] < bhi
       /\ a[x[1] + x[3] + 1] = b[x[2] + x[3] + 1]
      THEN extend_right(a, b, ahi, bhi, <<x[1], x[2], x[3] + 1>>)
      ELSE x

find_longest_match(a, b, alo, ahi, blo, bhi) ==
    extend_right(a, b, ahi, bhi,
        extend_left(a, b, alo, blo,
            best_in_b2j(a, b, alo, ahi, blo, bhi, bpopular(b))))

\* sum of the sizes of SequenceMatcher.get_matching_blocks() on a window:
\* the longest block x = <<i, j, k>>, then the windows left and right of it
RECURSIVE matching_size(_, _, _, _, _, _)
RECURSIVE matching_around(_, _, _, _, _, _, _)
matching_around(a, b, alo, ahi, blo, bhi, x) ==
    IF x[3] = 0 THEN 0
    ELSE x[3]
         + (IF alo < x[1] /\ blo < x[2]
              THEN matching_size(a, b, alo, x[1], blo, x[2]) ELSE 0)
         + (IF x[1] + x[3] < ahi /\ x[2] + x[3] < bhi
              THEN matching_size(a, b, x[1] + x[3], ahi, x[2] + x[3], bhi) ELSE 0)

matching_size(a, b, alo, ahi, blo, bhi) ==
    matching_around(a, b, alo, ahi, blo, bhi,
                    find_longest_match(a, b, alo, ahi, blo, bhi))

\* A ratio 2.0 * matches / length is the pair <<numerator, denominator>>;
\* _calculate_ratio returns 1.0 when length is 0.
_calculate_ratio(matches, length) ==
    IF length > 0 THEN <<2 * matches, length>> ELSE <<1, 1>>

\* r1 >= r2 and r1 = r2 on ratios
RatioGeq(r1, r2) == r1[1] * r2[2] >= r2[1] * r1[2]
RatioEq(r1, r2) == r1[1] * r2[2] = r2[1] * r1[2]

\* SequenceMatcher.ratio()
ratio(a, b) ==
    _calculate_ratio(matching_size(a, b, 0, Len(a), 0, Len(b)), Len(a) + Len(b))

\* SequenceMatcher.quick_ratio(): size of the multiset intersection
\* (fullbcount counts every element of b, the popular ones too)
\* elements of a[1..n] that still find a partner in b (avail / matches)
RECURSIVE quick_matches(_, _, _)
quick_matches(a, b, n) ==
    IF n = 0 THEN 0
    ELSE quick_matches(a, b, n - 1)
         + (IF Count(SubSeq(a, 1, n - 1), a[n]) < Count(b, a[n]) THEN 1 ELSE 0)

quick_ratio(a, b) ==
    _calculate_ratio(quick_matches(a, b, Len(a)), Len(a) + Len(b))

\* SequenceMatcher.real_quick_ratio()
real_quick_ratio(a, b) ==
    _calculate_ratio(IF Len(a) < Len(b) THEN Len(a) ELSE Len(b), Len(a) + Len(b))

\* heapq.nlargest(1, result) is max(result) on the tuples (score, x):
\* the higher score wins and equal scores are decided by comparing the
\* strings x.  TupleLess(p, q) is  p < q.
TupleLess(p, q) ==
    \/ ~RatioGeq(p[1], q[1])
    \/ (RatioEq(p[1], q[1]) /\ StrLess(p[2], q[2]))

\* variant: among equal scores the candidate met first stays the best
nlargest_first_seen(result) ==
    IF result = <<>> THEN <<>>
    ELSE LET top == {k \in 1..Len(result) :
                        \A m \in 1..Len(result) : RatioGeq(result[k][1], result[m][1])}
         IN <<result[Min(top)]>>

nlargest_1(result) ==
    IF result = <<>> THEN <<>>
    ELSE LET best == CHOOSE k \in 1..Len(result) :
                         \A m \in 1..Len(result) : ~TupleLess(result[k], result[m])
         IN <<result[best]>>

\* difflib.get_close_matches(word, possibilities, n=1, cutoff): the list of
\* the best match, empty when no possibility reaches the cutoff.
\* The possibilities x that pass the three tests, in their order:
close_enough(word, possibilities, cutoff) ==
    LET qualifies(x) == /\ RatioGeq(real_quick_ratio(x, word), cutoff)
                        /\ RatioGeq(quick_ratio(x, word), cutoff)
                        /\ RatioGeq(ratio(x, word), cutoff)
    IN SelectSeq(possibilities, qualifies)

\* result.append((s.ratio(), x))
scored(word, kept) == [k \in 1..Len(kept) |-> <<ratio(kept[k], word), kept[k]>>]

\* [x for score, x in result]
strip_scores(result) == [k \in 1..Len(result) |-> result[k][2]]

get_close_matches(word, possibilities, cutoff) ==
    strip_scores(nlargest_1(scored(word, close_enough(word, possibilities, cutoff))))

\* ------------------------------------------------------- reference table
\* apps.py:62, the fallback calories
FALLBACK_CALORIES == 200

\* apps.py:56, cutoff=0.6
cutoff_0_6 == <<6, 10>>

\* Values: a float result is Float(v), Python's None is None, and a call
\* that ends in an uncaught exception is Raised(type, line).
None == [type |-> "NoneType", value |-> 0]
Float(v) == [type |-> "float", value |-> v]
Raised(type, line) == [type |-> type, value |-> line]
IsException(v) == v.type \notin {"float", "NoneType"}

\* float("nan"), the cell pandas puts where the CSV has no value.  It is
\* no str: it is kept apart from every string (no string holds -1) and is
\* equal to none.
NaN == <<-1>>
isna(x) == x = NaN

\* pd.read_csv, default na_values: the texts read as NaN
\* "", #N/A, #N/A N/A, #NA, -1.#IND, -1.#QNAN, -NaN, -nan, 1.#IND, 1.#QNAN,
\* <NA>, N/A, NA, NULL, NaN, None, n/a, nan, null
na_values ==
    {<<>>,
     <<35, 78, 47, 65>>,
     <<35, 78, 47, 65, 32, 78, 47, 65>>,
     <<35, 78, 65>>,
     <<45, 49, 46, 35, 73, 78, 68>>,
     <<45, 49, 46, 35, 81, 78, 65, 78>>,
     <<45, 78, 97, 78>>,
     <<45, 110, 97, 110>>,
     <<49, 46, 35, 73, 78, 68>>,
     <<49, 46, 35, 81, 78, 65, 78>>,
     <<60, 78, 65, 62>>,
     <<78, 47, 65>>,
     <<78, 65>>,
     <<78, 85, 76, 76>>,
     <<78, 97, 78>>,
     <<78, 111, 110, 101>>,
     <<110, 47, 97>>,
     <<110, 97, 110>>,
     <<110, 117, 108, 108>>}

\* pd.read_csv, type inference of a column.  A text is read as a number
\* when, white space at its ends apart, it is an optional sign, digits with
\* at most one decimal point and an optional exponent (e or E, an optional
\* sign, digits), or when it is inf / infinity in any case with an
\* optional sign, and its value is within the range of a double.
isspace_ascii(c) == c \in (9..13) \cup {32}
\* the digits of 9223372036854775807, 9223372036854775808 and
\* 18446744073709551615
INT64_MAX_DIGITS == <<57, 50, 50, 51, 51, 55, 50, 48, 51, 54, 56, 53, 52, 55, 55, 53, 56, 48, 55>>
INT64_MIN_DIGITS == <<57, 50, 50, 51, 51, 55, 50, 48, 51, 54, 56, 53, 52, 55, 55, 53, 56, 48, 56>>
UINT64_MAX_DIGITS == <<49, 56, 52, 52, 54, 55, 52, 52, 48, 55, 51, 55, 48, 57, 53, 53, 49, 54, 49, 53>>
skip_spaces(text) ==
    LET solid == {k \in 1..Len(text) : ~isspace_ascii(text[k])}
    IN IF solid = {} THEN <<>>
       ELSE SubSeq(text, Min(solid), Max(solid))
unsigned(text) == IF text # <<>> /\ text[1] \in {43, 45} THEN Tail(text) ELSE text
is_digits(text) == text # <<>> /\ \A k \in 1..Len(text) : text[k] \in 48..57
is_mantissa(text) ==
    /\ \A k \in 1..Len(text) : text[k] \in (48..57) \cup {46}
    /\ Cardinality({k \in 1..Len(text) : text[k] = 46}) <= 1
    /\ \E k \in 1..Len(text) : text[k] \in 48..57
is_decimal(text) ==
    LET e == {k \in 1..Len(text) : text[k] \in {69, 101}}
    IN IF e = {} THEN is_mantissa(text)
       ELSE /\ is_mantissa(SubSeq(text, 1, Min(e) - 1))
            /\ is_digits(unsigned(SubSeq(text, Min(e) + 1, Len(text))))
\* the run of digits a text starts with, and that run without leading zeros
RECURSIVE digit_run(_)
digit_run(text) ==
    IF text # <<>> /\ text[1] \in 48..57
      THEN <<text[1]>> \o digit_run(Tail(text))
      ELSE <<>>
RECURSIVE without_zeros(_)
without_zeros(digits) ==
    IF digits # <<>> /\ digits[1] = 48 THEN without_zeros(Tail(digits)) ELSE digits
\* digits <= limit, two strings of digits without leading zeros
at_most(digits, limit) ==
    \/ Len(digits) < Len(limit)
    \/ Len(digits) = Len(limit) /\ ~StrLess(limit, digits)
skip_leading(text) ==
    LET solid == {k \in 1..Len(text) : ~isspace_ascii(text[k])}
    IN IF solid = {} THEN <<>> ELSE SubSeq(text, Min(solid), Len(text))
is_blank(text) == \A k \in 1..Len(text) : isspace_ascii(text[k])

\* precise_xstrtod, the float parser: it reads at most MAX_DIGITS digits of
\* the mantissa (the integer digits beyond them scale the value, the
\* decimals beyond them are dropped) and at most MAX_DIGITS digits of the
\* exponent, an int
MAX_DIGITS == 17
\* the digits of INT_MAX, 2147483647
INT_MAX_DIGITS == <<50, 49, 52, 55, 52, 56, 51, 54, 52, 55>>
\* the digits of the largest 17-digit number that 10^292 scales to a
\* finite double, 17976931348623157
DBL_MAX_DIGITS == <<49, 55, 57, 55, 54, 57, 51, 49, 51, 52, 56, 54, 50, 51, 49, 53, 55>>
take(text, n) == SubSeq(text, 1, IF n < Len(text) THEN n ELSE Len(text))
RECURSIVE int_of(_)
int_of(digits) ==
    IF digits = <<>> THEN 0
    ELSE 10 * int_of(SubSeq(digits, 1, Len(digits) - 1)) + digits[Len(digits)] - 48
mantissa_of(text) ==
    LET e == {k \in 1..Len(text) : text[k] \in {69, 101}}
    IN IF e = {} THEN text ELSE SubSeq(text, 1, Min(e) - 1)
exponent_of(text) ==
    LET e == {k \in 1..Len(text) : text[k] \in {69, 101}}
    IN IF e = {} THEN <<>> ELSE SubSeq(text, Min(e) + 1, Len(text))
\* number * 10^exponent, number a run of digits without leading zeros:
\* ERANGE when the exponent is above 308 or the product is HUGE_VAL
scaled(number, exponent) ==
    IF exponent > 308 THEN "error"
    ELSE IF /\ number # <<>>
            /\ exponent > 0
            /\ \/ Len(number) + exponent > 309
               \/ /\ Len(number) + exponent = 309
                  /\ ~at_most(number \o [k \in 1..(MAX_DIGITS - Len(number)) |-> 48],
                              DBL_MAX_DIGITS)
      THEN "error"
    ELSE "ok"
\* a text without sign or outer white space read as a double: "ok",
\* "error" (the cell is no double: its form, ERANGE, or exponent digits left
\* unread), or "undefined" when the exponent overflows the int it is kept in
precise_xstrtod(text) ==
    LET mantissa == mantissa_of(text)
        integers == digit_run(mantissa)
        decimals == IF Len(mantissa) > Len(integers)
                      THEN SubSeq(mantissa, Len(integers) + 2, Len(mantissa))
                      ELSE <<>>
        read == take(integers, MAX_DIGITS)
               \o take(decimals, MAX_DIGITS - Len(take(integers, MAX_DIGITS)))
        exponent == Len(integers) - Len(read)
        n == without_zeros(unsigned(exponent_of(text)))
        negative == exponent_of(text) # <<>> /\ exponent_of(text)[1] = 45
    IN IF ~is_decimal(text) THEN "error"
       ELSE IF Len(unsigned(exponent_of(text))) > MAX_DIGITS THEN "error"
       ELSE IF ~at_most(n, INT_MAX_DIGITS) THEN "undefined"
       ELSE IF negative /\ exponent < 0 /\ int_of(n) - 2147483647 > 1 + exponent
         THEN "undefined"
       ELSE IF ~negative /\ exponent > 0 /\ int_of(n) - 2147483647 > 0 - exponent
         THEN "undefined"
       ELSE scaled(without_zeros(read),
                   IF negative THEN exponent - int_of(n) ELSE exponent + int_of(n))

\* "inf", "infinity"
is_inf(text) ==
    lower(text) \in {<<105, 110, 102>>, <<105, 110, 102, 105, 110, 105, 116, 121>>}
\* a text read as a float
is_numeric(text) ==
    \/ is_inf(unsigned(text))
    \/ precise_xstrtod(unsigned(skip_spaces(text))) = "ok"
\* a text whose reading as a float is undefined (signed overflow of the
\* exponent)
is_undefined(text) ==
    /\ ~is_inf(unsigned(text))
    /\ precise_xstrtod(unsigned(skip_spaces(text))) = "undefined"
\* the float pass on a cell; wrapped tells whether the build reads a cell
\* of undefined exponent as a float
is_double(text, wrapped) == is_numeric(text) \/ (wrapped /\ is_undefined(text))


\* the parser reads a cell as a 64-bit integer: white space, a sign, digits,
\* white space. The digits are read first, so a run of digits beyond the
\* range overflows whatever follows it.
str_to_int64(text) ==
    LET p == skip_leading(text)
        digits == digit_run(unsigned(p))
        rest == SubSeq(unsigned(p), Len(digits) + 1, Len(unsigned(p)))
        limit == IF p # <<>> /\ p[1] = 45 THEN INT64_MIN_DIGITS
                                         ELSE INT64_MAX_DIGITS
    IN IF digits = <<>> THEN "invalid"
       ELSE IF ~at_most(without_zeros(digits), limit) THEN "overflow"
       ELSE IF ~is_blank(rest) THEN "invalid"
       ELSE "ok"
\* and as an unsigned one: a minus sign is noted and the cell read as 0, a
\* value above the int64 range is noted as well
str_to_uint64(text) ==
    LET p == skip_leading(text)
        digits == digit_run(unsigned(p))
        rest == SubSeq(unsigned(p), Len(digits) + 1, Len(unsigned(p)))
    IN IF p # <<>> /\ p[1] = 45 THEN "seen_sint"
       ELSE IF digits = <<>> THEN "invalid"
       ELSE IF ~at_most(without_zeros(digits), UINT64_MAX_DIGITS) THEN "overflow"
       ELSE IF ~is_blank(rest) THEN "invalid"
       ELSE IF ~at_most(without_zeros(digits), INT64_MAX_DIGITS) THEN "seen_uint"
       ELSE "ok"

\* the texts read as booleans: true and false, in any case
is_bool(text) ==
    lower(text) \in {<<116, 114, 117, 101>>, <<102, 97, 108, 115, 101>>}

\* the cells of a column that hold a value (not NaN)
values_of(texts) == {k \in 1..Len(texts) : texts[k] \notin na_values}

\* the column read as int64, cell after cell up to the first that fails
try_int64(texts) ==
    LET failed == {k \in values_of(texts) : str_to_int64(texts[k]) # "ok"}
    IN IF failed = {} THEN "ok" ELSE str_to_int64(texts[Min(failed)])
\* the column read as uint64 after an int64 overflow: a value above the
\* int64 range cannot stand with a negative one or with NaN (ValueError),
\* and a negative cell is an OverflowError
try_uint64(texts) ==
    LET kind(k) == str_to_uint64(texts[k])
        failed == {k \in values_of(texts) : kind(k) \in {"invalid", "overflow"}}
    IN IF failed # {} THEN kind(Min(failed))
       ELSE IF /\ \E k \in values_of(texts) : kind(k) = "seen_uint"
               /\ \/ \E k \in values_of(texts) : kind(k) = "seen_sint"
                  \/ values_of(texts) # 1..Len(texts)
         THEN "conflict"
       ELSE IF \E k \in values_of(texts) : kind(k) = "seen_sint" THEN "overflow"
       ELSE "ok"
\* the integers of the column do not fit: OverflowError, or the ValueError
\* of the uint64 conflict; the column is left as it is, as text
is_overflow_column(texts) ==
    /\ try_int64(texts) = "overflow"
    /\ try_uint64(texts) \in {"overflow", "conflict"}
\* the column is read as numbers: as int64 (float64 when a cell is NaN, or
\* every cell), as uint64, or else as float64 when every value is a number
is_number_column(texts, wrapped) ==
    /\ texts # <<>>
    /\ ~is_overflow_column(texts)
    /\ \/ try_int64(texts) = "ok"
       \/ try_int64(texts) = "overflow" /\ try_uint64(texts) = "ok"
       \/ \A k \in values_of(texts) : is_double(texts[k], wrapped)

\* the column keeps its texts as strings (.str applies) when it has no row,
\* when its integers overflow, or when it is neither read as numbers nor
\* made of booleans only; a column of numbers or of booleans has no .str
is_str_column(texts, wrapped) ==
    \/ texts = <<>>
    \/ is_overflow_column(texts)
    \/ /\ ~is_number_column(texts, wrapped)
       /\ \E k \in values_of(texts) : ~is_bool(texts[k])

\* the column ended in the ValueError of the uint64 conflict and is left AS
\* IS: converted to object without the NaN filter, an empty cell stays ""
is_as_is_column(texts) ==
    /\ try_int64(texts) = "overflow"
    /\ try_uint64(texts) = "conflict"

\* line 18, pd.read_csv(FALLBACK_CSV) on a file of a header and rows of two
\* fields <<name text, calories>>: the frame's columns, its rows with the
\* cells of the first column (NaN where the text is in na_values, unless
\* the column is left as it is), and whether that column holds strings
read_csv_as(file, wrapped) ==
    LET texts == [k \in 1..Len(file.rows) |-> file.rows[k][1]]
    IN [columns |-> file.header,
        rows |-> [k \in 1..Len(file.rows) |->
                     <<IF texts[k] \in na_values /\ ~is_as_is_column(texts)
                         THEN NaN ELSE texts[k],
                       file.rows[k][2]>>],
        is_object |-> is_str_column(texts, wrapped)]
\* the frames read_csv can give: one, but for a cell of undefined exponent
read_csv(file) == {read_csv_as(file, wrapped) : wrapped \in BOOLEAN}

\* lines 26-29 on one cell: the .str methods keep NaN
str_normalize(cell) == IF isna(cell) THEN NaN ELSE normalize(cell)

\* lines 24-30: the normalized_name column added to the rows of the frame
with_normalized_name(frame) ==
    [k \in 1..Len(frame.rows) |->
        [food_name |-> frame.rows[k][1],
         calories_per_100g |-> frame.rows[k][2],
         normalized_name |-> str_normalize(frame.rows[k][1])]]

\* lines 24-30: the exception they end in, None when they complete.
\* fallback_df["food_name"] needs the column; .str needs a column of strings.
normalization_error(frame) ==
    IF \A c \in 1..Len(frame.columns) : frame.columns[c] # "food_name"
      THEN Raised("KeyError", 25)
    ELSE IF ~frame.is_object THEN Raised("AttributeError", 26)
    ELSE None

\* the column fallback_df["normalized_name"]
normalized_names(df) == [k \in 1..Len(df) |-> df[k].normalized_name]

\* ---------------------------------------------------------------- lookup
\* line 34: not label
not_label(label) == label = <<>>

\* line 45 / line 58: fallback_df[fallback_df["normalized_name"] == name]
\* (NaN == name is False)
rows_equal(df, name) ==
    {k \in 1..Len(df) : ~isna(df[k].normalized_name) /\ df[k].normalized_name = name}

\* variant: the last row of the selection
iloc_last(selection) == Max(selection)

\* lines 47 / 60: match.iloc[0], the first row of a selection
iloc_0(selection) == Min(selection)

\* variant: only db_name in main_label
partial_match_one_way(db_name, main_label) == IsSubstring(db_name, main_label)

\* line 52 on a str db_name: db_name in main_label or main_label in db_name
partial_match(db_name, main_label) ==
    IsSubstring(db_name, main_label) \/ IsSubstring(main_label, db_name)

\* lines 50-53: the row the loop leaves on, 0 when it runs to the end.  It
\* leaves on the first row that matches (return) or whose db_name is NaN
\* (db_name in main_label raises TypeError: 'in <string>' requires string
\* as left operand, not float).
RECURSIVE partial_from(_, _, _)
partial_from(df, main_label, k) ==
    IF k > Len(df) THEN 0
    ELSE IF isna(df[k].normalized_name) THEN k
    ELSE IF partial_match(df[k].normalized_name, main_label) THEN k
    ELSE partial_from(df, main_label, k + 1)

partial_row(df, main_label) == partial_from(df, main_label, 1)

\* lines 52-53 on the row the loop leaves on
partial_outcome(df, k) ==
    IF isna(df[k].normalized_name) THEN Raised("TypeError", 52)
    ELSE Float(df[k].calories_per_100g)

\* lines 57-60: the first row named close[0], 0 when close is empty
row_named(df, matches) ==
    IF matches = <<>> THEN 0
    ELSE IF rows_equal(df, matches[1]) = {} THEN 0
    ELSE iloc_0(rows_equal(df, matches[1]))

\* lines 56-60: the row of the fuzzy match, 0 when there is none
fuzzy_row(df, main_label) ==
    row_named(df, get_close_matches(main_label, normalized_names(df), cutoff_0_6))

\* lines 56-62
fuzzy_outcome(df, fuzzy) ==
    IF fuzzy # 0 THEN Float(df[fuzzy].calories_per_100g)
    ELSE Float(FALLBACK_CALORIES)

\* lines 45-47: the row of the exact match, 0 when there is none
exact_row(df, main_label) ==
    IF rows_equal(df, main_label) = {} THEN 0
    ELSE iloc_0(rows_equal(df, main_label))

\* the return statements of lines 47, 53, 60 and 62, in that order; the
\* fuzzy tier is evaluated only when the loop ran to the end
returned(df, main_label, exact, partial) ==
    IF exact # 0 THEN Float(df[exact].calories_per_100g)
    ELSE IF partial # 0 THEN partial_outcome(df, partial)
    ELSE fuzzy_outcome(df, fuzzy_row(df, main_label))

\* lines 44-62 on the normalized label
lookup_main_label(main_label, df) ==
    returned(df, main_label, exact_row(df, main_label), partial_row(df, main_label))

\* fallback_lookup(label), lines 33-62, reading the table df
fallback_lookup(label, df) ==
    IF not_label(label) THEN None
    ELSE lookup_main_label(normalize(label), df)

\* ======================================================= the application
VARIABLES
    csv_readable,       \* pd.read_csv(FALLBACK_CSV) succeeds
    csv,                \* food_db.csv: its header and its rows
    fallback_df,        \* the module-level table of this run of the script
    phase,              \* where this run of the script is
    session_state,      \* st.session_state: the keys it holds, their values
    exception,          \* the uncaught exception that ended this run
    pc, label, main_label, row, close, ret,  \* concurrent calls of fallback_lookup
    label_a, label_b, norm_a, norm_b     \* two labels and their normal forms

app_vars == <<csv_readable, csv, fallback_df, phase, session_state, exception>>
call_vars == <<pc, label, main_label, row, close, ret>>
norm_vars == <<label_a, label_b, norm_a, norm_b>>
vars == <<app_vars, call_vars, norm_vars>>

\* ---------------------------------------------------------------- inputs
\* "a", "B", "_": a letter, an upper-case letter, the underscore
LabelAlphabet == {97, 66, UNDERSCORE}
\* labels: every string of at most three characters
Lengths == {0, 1, 2, 3}
Labels == Strings(LabelAlphabet, Lengths)
\* the name cells of food_db.csv: "" (read as NaN), "1" (a number), "_",
\* "a", "B", "aB", "aa", "Ba", "aaa", "aBB", "aBa", "a_B"
FoodNames == {<<>>, <<49>>, <<UNDERSCORE>>, <<97>>, <<66>>, <<97, 66>>,
              <<97, 97>>, <<66, 97>>, <<97, 97, 97>>, <<97, 66, 66>>,
              <<97, 66, 97>>, <<97, UNDERSCORE, 66>>}
\* the header of food_db.csv: the expected one, and one without food_name
Headers == {<<"food_name", "calories_per_100g">>, <<"name", "calories_per_100g">>}

\* calories of the k-th row of the CSV: distinct per row, never the fallback
calories_of_row(k) == 50 * k + 25

csv_file(header, names) ==
    [header |-> header,
     rows |-> [k \in 1..Len(names) |-> <<names[k], calories_of_row(k)>>]]

\* lines 76-84: the defaults of the keys the session does not hold yet
\* (food_history and consumed_calories, which no lookup reads, are left out)
session_defaults ==
    [profile_submitted |-> FALSE, top_label |-> <<>>, calories_per_100g |-> Float(0)]
\* the session with one more key, or a new value of a key
with_key(session, name, value) ==
    [key \in DOMAIN session \cup {name} |-> IF key = name THEN value ELSE session[key]]
NoKeys == [key \in {} |-> None]

Threads == 1..NumThreads
NoCalls ==
    /\ pc = [t \in Threads |-> "idle"]
    /\ label = [t \in Threads |-> <<>>]
    /\ main_label = [t \in Threads |-> <<>>]
    /\ row = [t \in Threads |-> 0]
    /\ close = [t \in Threads |-> <<>>]
    /\ ret = [t \in Threads |-> None]
NoLabels ==
    /\ label_a = <<>>
    /\ label_b = <<>>
    /\ norm_a = <<>>
    /\ norm_b = <<>>

\* ------------------------------------------------- the script, lines 16-155
\* Streamlit runs the script from the top on every interaction of a session;
\* st.session_state is kept from one run to the next, the module-level
\* fallback_df is built again by every run.
\* phase: "load" (line 16), "loaded" (after line 30), "ready" (after line
\* 84, up to line 128), "chosen" (in st.info, line 142), "done" (in
\* st.success, line 146), "end" (after line 155), "stopped" (st.stop()),
\* "crashed" (uncaught exception).
Init ==
    /\ \/ csv_readable = FALSE /\ csv = csv_file(<<>>, <<>>)
       \/ /\ csv_readable = TRUE
          /\ \E header \in Headers : \E n \in 0..MaxRows :
                 \E names \in [1..n -> FoodNames] : csv = csv_file(header, names)
    /\ fallback_df = <<>>
    /\ phase = "load"
    /\ session_state = NoKeys
    /\ exception = None
    /\ NoCalls
    /\ NoLabels

\* lines 17-30: read the CSV and normalize the food names once; lines 24-30
\* are outside the try, so their exception ends the run
LoadDatabase ==
    /\ phase = "load"
    /\ csv_readable
    /\ \E frame \in read_csv(csv) :
           IF normalization_error(frame) = None
             THEN /\ fallback_df' = with_normalized_name(frame)
                  /\ phase' = "loaded"
                  /\ UNCHANGED exception
             ELSE /\ exception' = normalization_error(frame)
                  /\ phase' = "crashed"
                  /\ UNCHANGED fallback_df
    /\ UNCHANGED <<csv_readable, csv, session_state>>
    /\ UNCHANGED <<call_vars, norm_vars>>

\* lines 19-21: st.error, st.stop
LoadError ==
    /\ phase = "load"
    /\ ~csv_readable
    /\ phase' = "stopped"
    /\ UNCHANGED <<csv_readable, csv, fallback_df, session_state, exception>>
    /\ UNCHANGED <<call_vars, norm_vars>>

\* lines 76-84: a key gets its default only if the session does not hold it
SessionInitialization ==
    /\ phase = "loaded"
    /\ session_state' =
           [key \in DOMAIN session_state \cup DOMAIN session_defaults |->
               IF key \in DOMAIN session_state THEN session_state[key]
               ELSE session_defaults[key]]
    /\ phase' = "ready"
    /\ UNCHANGED <<csv_readable, csv, fallback_df, exception>>
    /\ UNCHANGED <<call_vars, norm_vars>>

\* lines 87-100: the profile is submitted (username and daily_calories,
\* which no lookup reads, are set with it); the same run goes on at line 103
SubmitProfile ==
    /\ phase = "ready"
    /\ ~session_state.profile_submitted
    /\ session_state' = with_key(session_state, "profile_submitted", TRUE)
    /\ UNCHANGED <<csv_readable, csv, fallback_df, phase, exception>>
    /\ UNCHANGED <<call_vars, norm_vars>>

\* lines 119-122: an upload or a camera photo is stored under the key image,
\* which no default initialises; Image.open raises on a file it cannot read
LoadImage ==
    /\ phase = "ready"
    /\ session_state.profile_submitted
    /\ \/ /\ session_state' = with_key(session_state, "image", "image")
          /\ UNCHANGED <<phase, exception>>
       \/ /\ exception' = Raised("UnidentifiedImageError", 120)
          /\ phase' = "crashed"
          /\ UNCHANGED session_state
    /\ UNCHANGED <<csv_readable, csv, fallback_df>>
    /\ UNCHANGED <<call_vars, norm_vars>>

\* lines 128-130, Analyze Image pressed, the runs that end there: line 128
\* reads st.session_state.image, an AttributeError when the session holds
\* no image; the classifier of line 130 may raise
AnalyzeError ==
    /\ phase = "ready"
    /\ session_state.profile_submitted
    /\ exception' = IF "image" \in DOMAIN session_state
                      THEN Raised("Exception", 130)
                      ELSE Raised("AttributeError", 128)
    /\ phase' = "crashed"
    /\ UNCHANGED <<csv_readable, csv, fallback_df, session_state>>
    /\ UNCHANGED <<call_vars, norm_vars>>

\* lines 128-142, Analyze Image pressed on a stored image: the dish is
\* chosen among the predictions and stored; the run is then inside
\* st.info, before the lookup
SelectDish(chosen) ==
    /\ phase = "ready"
    /\ session_state.profile_submitted
    /\ "image" \in DOMAIN session_state
    /\ session_state' = [session_state EXCEPT !.top_label = chosen]
    /\ phase' = "chosen"
    /\ UNCHANGED <<csv_readable, csv, fallback_df, exception>>
    /\ UNCHANGED <<call_vars, norm_vars>>

\* lines 145-146 on the value or exception v of fallback_lookup(chosen): an
\* exception leaves the key as it was; None is stored and then fails the
\* format of line 146 (TypeError: unsupported format string passed to
\* NoneType.__format__)
StoreCalories(v) ==
    /\ session_state' =
           IF IsException(v) THEN session_state
           ELSE [session_state EXCEPT !.calories_per_100g = v]
    /\ exception' = IF IsException(v) THEN v
                    ELSE IF v = None THEN Raised("TypeError", 146)
                    ELSE None
    /\ phase' = IF IsException(v) \/ v = None THEN "crashed" ELSE "done"

\* lines 145-146: the lookup of the chosen dish
Lookup ==
    /\ phase = "chosen"
    /\ StoreCalories(fallback_lookup(session_state.top_label, fallback_df))
    /\ UNCHANGED <<csv_readable, csv, fallback_df>>
    /\ UNCHANGED <<call_vars, norm_vars>>

\* lines 149-155: the serving estimate from the stored label and calories,
\* in a run with or without a lookup; None * float raises TypeError
CalorieTracking ==
    /\ phase \in {"ready", "done"}
    /\ session_state.profile_submitted
    /\ IF /\ session_state.top_label # <<>>
          /\ session_state.calories_per_100g = None
         THEN /\ exception' = Raised("TypeError", 154)
              /\ phase' = "crashed"
         ELSE /\ phase' = "end"
              /\ UNCHANGED exception
    /\ UNCHANGED <<csv_readable, csv, fallback_df, session_state>>
    /\ UNCHANGED <<call_vars, norm_vars>>

\* an interaction (or a rerun request served inside a Streamlit command,
\* st.set_page_config of line 73 included) ends this run and starts the
\* script again on the same session
Rerun ==
    /\ phase \in {"loaded", "ready", "chosen", "done", "end", "stopped", "crashed"}
    /\ phase' = "load"
    /\ fallback_df' = <<>>
    /\ exception' = None
    /\ UNCHANGED <<csv_readable, csv, session_state>>
    /\ UNCHANGED <<call_vars, norm_vars>>

Next ==
    \/ LoadDatabase
    \/ LoadError
    \/ SessionInitialization
    \/ SubmitProfile
    \/ LoadImage
    \/ AnalyzeError
    \/ \E chosen \in Labels : SelectDish(chosen)
    \/ Lookup
    \/ CalorieTracking
    \/ Rerun

Spec == Init /\ [][Next]_vars

\* ==================================================== normalization alone
\* Two labels go through the chain of lines 37-42: label_a, and label_b, a
\* variant of it.  Each step changes label_b in one of the ways a food name
\* varies and normalizes the result.
\* "a", "A", "_", "!", " ", tab
NormAlphabet == {97, 65, UNDERSCORE, 33, SPACE, 9}
\* the labels a run starts from are written plainly, in lower case and white
\* space; the steps below reach every other spelling of each of them
PlainAlphabet == {97, SPACE, 9}
NormLabels == Strings(PlainAlphabet, 0..MaxNormLen)

AppIdle ==
    /\ csv_readable = TRUE
    /\ csv = csv_file(<<"food_name", "calories_per_100g">>, <<>>)
    /\ fallback_df = <<>>
    /\ phase = "ready"
    /\ session_state = session_defaults
    /\ exception = None

InitNorm ==
    /\ label_a \in NormLabels
    /\ label_b = label_a
    /\ norm_a = normalize(label_a)
    /\ norm_b = normalize(label_b)
    /\ AppIdle
    /\ NoCalls

\* label_b becomes s and is normalized
Renormalize(s) ==
    /\ Len(s) <= MaxNormLen
    /\ label_b' = s
    /\ norm_b' = normalize(s)
    /\ UNCHANGED <<label_a, norm_a, app_vars, call_vars>>

InsertAt(s, k, c) == SubSeq(s, 1, k) \o <<c>> \o SubSeq(s, k + 1, Len(s))
DeleteAt(s, k) == SubSeq(s, 1, k - 1) \o SubSeq(s, k + 1, Len(s))
PutAt(s, k, c) == [s EXCEPT ![k] = c]
IsLetter(c) == c \in (65..90) \cup (97..122)

\* a letter changes case
SwapCase ==
    \E k \in 1..Len(label_b) :
        /\ IsLetter(label_b[k])
        /\ Renormalize(PutAt(label_b, k, IF label_b[k] >= 97 THEN label_b[k] - 32
                                                            ELSE label_b[k] + 32))

\* a punctuation character other than the underscore appears or disappears
InsertPunctuation ==
    \E k \in 0..Len(label_b) : \E c \in (NormAlphabet \cap punctuation) \ {UNDERSCORE} :
        Renormalize(InsertAt(label_b, k, c))

DeletePunctuation ==
    \E k \in 1..Len(label_b) :
        /\ label_b[k] \in punctuation \ {UNDERSCORE}
        /\ Renormalize(DeleteAt(label_b, k))

\* an underscore becomes a space, or a space an underscore, in place
SwapUnderscoreSpace ==
    \E k \in 1..Len(label_b) :
        /\ label_b[k] \in {UNDERSCORE, SPACE}
        /\ Renormalize(PutAt(label_b, k, IF label_b[k] = SPACE THEN UNDERSCORE
                                                              ELSE SPACE))

\* whitespace appears or disappears at either end
AddOuterWhitespace ==
    \E c \in NormAlphabet \cap whitespace :
        \/ Renormalize(<<c>> \o label_b)
        \/ Renormalize(label_b \o <<c>>)

DropOuterWhitespace ==
    /\ label_b # <<>>
    /\ \/ label_b[1] \in whitespace /\ Renormalize(Tail(label_b))
       \/ /\ label_b[Len(label_b)] \in whitespace
          /\ Renormalize(SubSeq(label_b, 1, Len(label_b) - 1))

NextNorm ==
    \/ SwapCase
    \/ InsertPunctuation
    \/ DeletePunctuation
    \/ SwapUnderscoreSpace
    \/ AddOuterWhitespace
    \/ DropOuterWhitespace

SpecNorm == InitNorm /\ [][NextNorm]_vars

\* ==================================================== concurrent lookups
\* Threads call fallback_lookup on the shared table; a call advances one
\* statement group at a time, so calls interleave between any two reads of
\* fallback_df.
\* tables: ["aBB", "aaa"], ["a"] and ["a", ""] (a name read as NaN)
ConcFoodNames == {<<<<97, 66, 66>>, <<97, 97, 97>>>>, <<<<97>>>>, <<<<97>>, <<>>>>}
\* labels: "", "aBB", "aaa", "BB_", "aBa", "aa", "_"
ConcLabels == {<<>>, <<97, 66, 66>>, <<97, 97, 97>>, <<66, 66, UNDERSCORE>>,
               <<97, 66, 97>>, <<97, 97>>, <<UNDERSCORE>>}

InitConc ==
    /\ csv_readable = TRUE
    /\ \E names \in ConcFoodNames :
           csv = csv_file(<<"food_name", "calories_per_100g">>, names)
    /\ \E frame \in read_csv(csv) : fallback_df = with_normalized_name(frame)
    /\ phase = "ready"
    /\ session_state = session_defaults
    /\ exception = None
    /\ NoCalls
    /\ NoLabels

Shared == <<app_vars, norm_vars>>

\* fallback_lookup(l) is entered
Call(t, l) ==
    /\ pc[t] = "idle"
    /\ pc' = [pc EXCEPT ![t] = "guard"]
    /\ label' = [label EXCEPT ![t] = l]
    /\ UNCHANGED <<main_label, row, close, ret, Shared>>

\* lines 34-42: the guard, then the normalization of the label
Guard(t) ==
    /\ pc[t] = "guard"
    /\ IF not_label(label[t])
         THEN /\ ret' = [ret EXCEPT ![t] = None]
              /\ pc' = [pc EXCEPT ![t] = "done"]
              /\ UNCHANGED main_label
         ELSE /\ main_label' = [main_label EXCEPT ![t] = normalize(label[t])]
              /\ pc' = [pc EXCEPT ![t] = "exact"]
              /\ UNCHANGED ret
    /\ UNCHANGED <<label, row, close, Shared>>

\* variant: a hit is moved to the head of the shared table
Exact_move_to_front(t) ==
    /\ pc[t] = "exact"
    /\ LET match == exact_row(fallback_df, main_label[t])
       IN IF match # 0
            THEN /\ ret' = [ret EXCEPT ![t] =
                               Float(fallback_df[match].calories_per_100g)]
                 /\ pc' = [pc EXCEPT ![t] = "done"]
                 /\ fallback_df' = <<fallback_df[match]>>
                                   \o DeleteAt(fallback_df, match)
                 /\ UNCHANGED row
            ELSE /\ pc' = [pc EXCEPT ![t] = "partial"]
                 /\ row' = [row EXCEPT ![t] = 1]
                 /\ UNCHANGED <<ret, fallback_df>>
    /\ UNCHANGED <<label, main_label, close, norm_vars>>
    /\ UNCHANGED <<csv_readable, csv, phase, session_state, exception>>

\* lines 45-47: the exact match
Exact(t) ==
    /\ pc[t] = "exact"
    /\ LET match == exact_row(fallback_df, main_label[t])
       IN IF match # 0
            THEN /\ ret' = [ret EXCEPT ![t] =
                               Float(fallback_df[match].calories_per_100g)]
                 /\ pc' = [pc EXCEPT ![t] = "done"]
                 /\ UNCHANGED row
            ELSE /\ pc' = [pc EXCEPT ![t] = "partial"]
                 /\ row' = [row EXCEPT ![t] = 1]
                 /\ UNCHANGED ret
    /\ UNCHANGED <<label, main_label, close, Shared>>

\* lines 50-53: one iteration of the loop over the rows; the call ends on
\* a match (return) and on a NaN name (TypeError)
Partial(t) ==
    /\ pc[t] = "partial"
    /\ IF row[t] > Len(fallback_df)
         THEN /\ pc' = [pc EXCEPT ![t] = "fuzzy"]
              /\ UNCHANGED <<row, ret>>
         ELSE IF \/ isna(fallback_df[row[t]].normalized_name)
                 \/ partial_match(fallback_df[row[t]].normalized_name, main_label[t])
           THEN /\ ret' = [ret EXCEPT ![t] = partial_outcome(fallback_df, row[t])]
                /\ pc' = [pc EXCEPT ![t] = "done"]
                /\ UNCHANGED row
           ELSE /\ row' = [row EXCEPT ![t] = row[t] + 1]
                /\ UNCHANGED <<pc, ret>>
    /\ UNCHANGED <<label, main_label, close, Shared>>

\* line 56: the fuzzy match reads the names of the table into close
Fuzzy(t) ==
    /\ pc[t] = "fuzzy"
    /\ close' = [close EXCEPT ![t] =
                     get_close_matches(main_label[t], normalized_names(fallback_df),
                                       cutoff_0_6)]
    /\ pc' = [pc EXCEPT ![t] = "match_row"]
    /\ UNCHANGED <<label, main_label, row, ret, Shared>>

\* lines 57-62: the table is read again for the row named close[0]; its
\* calories, or the fallback calories
MatchRow(t) ==
    /\ pc[t] = "match_row"
    /\ ret' = [ret EXCEPT ![t] =
                   fuzzy_outcome(fallback_df, row_named(fallback_df, close[t]))]
    /\ pc' = [pc EXCEPT ![t] = "done"]
    /\ UNCHANGED <<label, main_label, row, close, Shared>>

\* the call hands ret[t], a value or an exception, to its caller
Return(t) ==
    /\ pc[t] = "done"
    /\ pc' = [pc EXCEPT ![t] = "idle"]
    /\ label' = [label EXCEPT ![t] = <<>>]
    /\ main_label' = [main_label EXCEPT ![t] = <<>>]
    /\ row' = [row EXCEPT ![t] = 0]
    /\ close' = [close EXCEPT ![t] = <<>>]
    /\ ret' = [ret EXCEPT ![t] = None]
    /\ UNCHANGED Shared

NextConc ==
    \E t \in Threads :
        \/ \E l \in ConcLabels : Call(t, l)
        \/ Guard(t)
        \/ Exact(t)
        \/ Partial(t)
        \/ Fuzzy(t)
        \/ MatchRow(t)
        \/ Return(t)

SpecConc == InitConc /\ [][NextConc]_vars

\* ================================================================ claims
TopLabel == session_state.top_label
Calories == session_state.calories_per_100g
\* line 145 called fallback_lookup(top_label) in this run of the script
Called == phase = "done" \/ (phase = "crashed" /\ exception.value \in {52, 146})
\* ... and the call returned (a value, not an exception): it is in Calories
Looked == phase = "done" \/ (phase = "crashed" /\ exception.value = 146)
\* the label passed the guard of line 34, so main_label was computed
Normalized == Looked /\ TopLabel # <<>>
MainLabel == normalize(TopLabel)
CaloriesOfRow(k) == Float(fallback_df[k].calories_per_100g)
Rows == 1..Len(fallback_df)
NameOfRow(k) == fallback_df[k].normalized_name
\* rows that have a name (a string)
Named == {k \in Rows : ~isna(NameOfRow(k))}
ExactRowsOf(m) == {k \in Named : NameOfRow(k) = m}
SubstringRowsOf(m) ==
    {k \in Named : IsSubstring(NameOfRow(k), m) \/ IsSubstring(m, NameOfRow(k))}
\* similarity of each entry's name to the label m, as pairs num / den (0 for
\* an entry without a name)
SimilaritiesTo(m) ==
    SubSeq([k \in Rows |-> IF isna(NameOfRow(k)) THEN <<0, 1>>
                           ELSE ratio(NameOfRow(k), m)], 1, Len(fallback_df))
CloseIn(sims) == {k \in DOMAIN sims : RatioGeq(sims[k], <<6, 10>>)}
TopIn(sims) ==
    {k \in CloseIn(sims) : \A m \in CloseIn(sims) : RatioGeq(sims[k], sims[m])}
\* rows whose name equals the normalized label
ExactRows == ExactRowsOf(MainLabel)
\* rows whose name is inside the normalized label, or holds it
SubstringRows == SubstringRowsOf(MainLabel)
Similarities == SimilaritiesTo(MainLabel)
\* rows whose similarity reaches 0.6
CloseRows == CloseIn(Similarities)
\* rows whose similarity is the highest of the table, and at least 0.6
TopRows == TopIn(Similarities)
\* the row of `rows` whose name is greatest in string order
GreatestNamed(rows) ==
    CHOOSE k \in rows : \A m \in rows : ~StrLess(NameOfRow(k), NameOfRow(m))
FirstNamedLike(k) == Min({m \in Rows : NameOfRow(m) = NameOfRow(k)})
NoMatchOf(m) == ExactRowsOf(m) = {} /\ SubstringRowsOf(m) = {}
\* the call returned from the fuzzy tier (line 60 or 62)
FuzzyTierReached == Normalized /\ NoMatchOf(MainLabel)
\* several distinct names share the highest similarity
SeveralNames(rows) == \E k, m \in rows : NameOfRow(k) # NameOfRow(m)

\* C1 as stated: for every table and label, fallback_lookup returns None if
\* and only if the label is empty; for every non-empty label it returns a
\* float and never ends in an error.
C1_NoneIffEmptyLabel ==
    Called =>
        /\ Looked
        /\ (Calories = None <=> TopLabel = <<>>)
        /\ (TopLabel # <<>> => Calories.type = "float")

\* C2: when the normalized label equals the normalized_name of some entry,
\* the call returns the calories of the first such entry in table order,
\* even if an earlier entry matches the label by substring (or has no name).
C2_ExactMatchFirstEntry ==
    (Called /\ TopLabel # <<>>) =>
        LET exact == ExactRows
        IN exact # {} => (Looked /\ Calories = CaloriesOfRow(Min(exact)))

\* C2 witness: the label is a case / underscore variant of the second
\* entry's name, and the first entry matches it by substring only
C2_Witness ==
    /\ Normalized
    /\ Len(fallback_df) = 2
    /\ ExactRows = {2}
    /\ 1 \in SubstringRows
    /\ TopLabel # fallback_df[2].food_name
    /\ TopLabel # MainLabel
    /\ Calories = CaloriesOfRow(2)

\* C3 as stated: when no entry matches the normalized label exactly, the
\* call returns the calories of the first entry in table order whose
\* normalized_name is a substring of the normalized label or contains it;
\* with two entries sharing a normalized_name the first one's calories are
\* returned.
C3_SubstringMatchFirstEntry ==
    (Called /\ TopLabel # <<>>) =>
        LET exact == ExactRows
            substring == SubstringRows
        IN (exact = {} /\ substring # {}) =>
               (Looked /\ Calories = CaloriesOfRow(Min(substring)))

\* C4 as stated: in the fuzzy tier, when several distinct names tie for the
\* highest similarity at or above 0.6, the result is the calories of the
\* tied name that comes first in table order.
C4_TieFirstInTableOrder ==
    FuzzyTierReached =>
        LET top == TopRows
        IN SeveralNames(top) => Calories = CaloriesOfRow(Min(top))

\* C4 amended: in the fuzzy tier, when several distinct names tie for the
\* highest similarity at or above 0.6, the result is the calories of the
\* first entry carrying the tied name that is greatest in string (code
\* point) order, whatever the table order of the tied names.
C4_TieGreatestName ==
    FuzzyTierReached =>
        LET top == TopRows
        IN SeveralNames(top) =>
               Calories = CaloriesOfRow(FirstNamedLike(GreatestNamed(top)))

\* C4 witness: two distinct names tie for the highest similarity and the one
\* later in the table is the greater string
C4_Witness ==
    /\ FuzzyTierReached
    /\ TopRows = {1, 2}
    /\ StrLess(NameOfRow(1), NameOfRow(2))
    /\ Calories = CaloriesOfRow(2)

\* C5 as stated: for a non-empty label and a table with no exact match, no
\* substring match and no entry of similarity >= 0.6, the call returns
\* exactly 200.0, never None and never an error.
C5_DefaultCalories ==
    (/\ Called
     /\ TopLabel # <<>>
     /\ NoMatchOf(MainLabel)
     /\ CloseRows = {}) => (Looked /\ Calories = Float(200))

\* C6 as stated: every entry of the table lookups run against has a
\* non-empty normalized_name (rows that normalize to the empty string are
\* dropped at load time).
C6_NoEmptyNormalizedName ==
    phase \in {"ready", "chosen", "done"} =>
        \A k \in Rows : ~isna(NameOfRow(k)) /\ NameOfRow(k) # <<>>

\* C10: a non-empty label whose normalized form is empty, on a non-empty
\* table in which every entry has a non-empty normalized_name, gets the
\* calories of the first table entry: neither None nor the 200.0 default.
C10_BlankLabelFirstEntry ==
    (/\ Called
     /\ TopLabel # <<>>
     /\ MainLabel = <<>>
     /\ fallback_df # <<>>
     /\ \A k \in Rows : ~isna(NameOfRow(k)) /\ NameOfRow(k) # <<>>) =>
        /\ Looked
        /\ Calories = CaloriesOfRow(1)
        /\ Calories # None
        /\ Calories # Float(200)

\* C10 witness: the label "_" on a two-row table whose names are not empty
C10_Witness ==
    /\ Normalized
    /\ TopLabel = <<95>>
    /\ Len(fallback_df) = 2
    /\ \A k \in Rows : ~isna(NameOfRow(k)) /\ NameOfRow(k) # <<>>
    /\ Calories = CaloriesOfRow(1)

\* C7: labels that differ only in letter case, in punctuation other than the
\* underscore, in underscore versus space at the same position, or in
\* leading / trailing whitespace normalize to the same string; an underscore
\* becomes a space (it does not vanish with the punctuation) and runs of
\* inner spaces are kept: between its first and last letter a label keeps
\* one character per character that is not punctuation, a space for each
\* underscore.
InnerForm(s) ==
    LET NotPunct(c) == c \notin punctuation \ {UNDERSCORE}
        kept == SelectSeq(s, NotPunct)
    IN [k \in 1..Len(kept) |->
           IF kept[k] = UNDERSCORE THEN SPACE
           ELSE IF kept[k] \in 65..90 THEN kept[k] + 32
           ELSE kept[k]]
C7_VariantsNormalizeAlike ==
    /\ norm_a = norm_b
    /\ (/\ label_b # <<>>
        /\ IsLetter(label_b[1])
        /\ IsLetter(label_b[Len(label_b)])) => norm_b = InnerForm(label_b)

\* C7 witness: the variant differs from the label, holds an underscore and
\* a space in a row between two letters, and the normal form holds the run
\* of two spaces there
C7_Witness ==
    /\ label_a # label_b
    /\ Len(label_b) = 4
    /\ IsLetter(label_b[1])
    /\ label_b[2] = UNDERSCORE
    /\ label_b[3] = SPACE
    /\ IsLetter(label_b[4])
    /\ norm_b = <<97, SPACE, SPACE, 97>>
    /\ norm_a = norm_b

\* C8: normalization is idempotent: normalizing a normalized string returns
\* it unchanged.
C8_NormalizeIdempotent ==
    /\ normalize(norm_a) = norm_a
    /\ normalize(norm_b) = norm_b

\* C8 witness: normalization changed the label in every step of the chain
\* (case, underscore, punctuation, outer whitespace) and the result is stable
C8_Witness ==
    /\ \E k \in 1..Len(label_b) : label_b[k] \in 65..90
    /\ \E k \in 1..Len(label_b) : label_b[k] = UNDERSCORE
    /\ \E k \in 1..Len(label_b) : label_b[k] \in punctuation \ {UNDERSCORE}
    /\ label_a # label_b
    /\ norm_b # <<>>
    /\ Len(norm_b) < Len(label_b) - 1
    /\ normalize(norm_b) = norm_b

\* C9: fallback_lookup never modifies the reference table, and in every
\* interleaving of concurrent lookups each call ends as the same call does
\* when run alone on the loaded table, with the same value (so repeated
\* calls with one label agree).
C9_LookupsDoNotInterfere ==
    \E frame \in read_csv(csv) :
        /\ fallback_df = with_normalized_name(frame)
        /\ \A t \in Threads :
              pc[t] = "done" =>
                  ret[t] = fallback_lookup(label[t], with_normalized_name(frame))

\* C9 witness: one call has returned through the fuzzy tier while another
\* call, of the same label, is in the middle of its scan of the table
C9_Witness ==
    \E t, u \in Threads :
        /\ t # u
        /\ pc[t] = "done"
        /\ label[t] = <<97, 66, 97>>
        /\ Len(fallback_df) = 2
        /\ ret[t] = Float(fallback_df[1].calories_per_100g)
        /\ pc[u] = "partial"
        /\ row[u] = 2
        /\ label[u] = label[t]

====
